---- MODULE Spec2Model ----
(***************************************************************************)
(* Order Analytics Dashboard (deepseek_python_20250513_d7c1ab.py).        *)
(*                                                                         *)
(* A Streamlit script: load_data reads Testdetailorders.csv (memoized by   *)
(* st.cache_data), main narrows the table through a date range and four    *)
(* dropdowns, renders KPIs, charts and rankings, and exports the filtered  *)
(* table as CSV.  The script is re-executed from the top on every user     *)
(* interaction.                                                            *)
(*                                                                         *)
(* Cells.  Every cell, raw (CSV text) or parsed (a pandas value), is a     *)
(* record [k, n, s]: k is the kind, n a number, s a text.                  *)
(*   raw text kinds   "empty"  the empty field                             *)
(*                    "dmy"    a date written dd/mm/yyyy, n its day        *)
(*                    "iso"    a date written yyyy-mm-dd, n its day        *)
(*                    "num"    a plain number n                            *)
(*                    "cur"    a number n with '$' and ',' in it           *)
(*                    "ym"     a month written yyyy-mm, n the month        *)
(*                    "junk"   any other text that is no date, no number   *)
(*                    "str"    a label: text s followed by the zero-padded *)
(*                             number n (text order is the order of n)     *)
(*   parsed kinds     "NaN"    the null marker (NaT in a datetime column)  *)
(*                    "date"   a Timestamp at midnight, n its day          *)
(*                    "float"  a number n                                  *)
(*                    "period" a monthly Period, n the month               *)
(*                    and every text kind, for the cells of an object      *)
(*                    column that stay text.                               *)
(* Days are the days of January 2025 (1..31), so that every date of the    *)
(* model lies in the month 202501 of the year 2025.                        *)
(***************************************************************************)
EXTENDS Integers, Sequences, FiniteSets, TLC

VARIABLES
    file,            \* Testdetailorders.csv on disk: [exists, cols, rows]
    cache,           \* st.cache_data's entry for load_data('Testdetailorders.csv')
    pc,              \* position of the current run of the script
    err,             \* the exception that ended the run: [type, line]
    df,              \* main's df
    date_range,      \* the tuple st.sidebar.date_input returned
    selected,        \* the four selectbox values, by column name
    filtered_df,     \* main's filtered_df (its current binding)
    stages,          \* the successive bindings of filtered_df, in order
    kpi,             \* total_orders, total_revenue, unique_customers
    top_products,    \* tab3, ranking by summed Sub Total
    top_qty,         \* tab3, ranking by summed Qty
    csv,             \* tab4, the table written by to_csv(index=False)
    rendered         \* the elements drawn on the page in this run

vars == <<file, cache, pc, err, df, date_range, selected, filtered_df, stages,
          kpi, top_products, top_qty, csv, rendered>>

-----------------------------------------------------------------------------
(* Bounds of the input families. *)

MaxRowsMain == 2
MaxRowsDate == 3
MaxDay == 2
MaxRowsKpi == 3
MaxAmount == 2
MaxRowsRerun == 1
MaxProducts == 11

(* head(10), lines 187 and 202. *)
TopN == 10

-----------------------------------------------------------------------------
(* Cells *)

Cell(k, n, s) == [k |-> k, n |-> n, s |-> s]

Empty == Cell("empty", 0, "")
Junk == Cell("junk", 0, "")
Dmy(d) == Cell("dmy", d, "")
Iso(d) == Cell("iso", d, "")
Num(v) == Cell("num", v, "")
Cur(v) == Cell("cur", v, "")
Label(s, i) == Cell("str", i, s)
NaN == Cell("NaN", 0, "")
Date(d) == Cell("date", d, "")
Float(v) == Cell("float", v, "")
All == Label("All", 0)

IsNull(c) == c.k = "NaN"

(* Series.dt.to_period('M') and Series.dt.year at one cell, lines 40-41. *)
to_period(c) == IF c.k = "date" THEN Cell("period", 202501, "") ELSE NaN

dt_year(c) == IF c.k = "date" THEN Float(2025) ELSE NaN

-----------------------------------------------------------------------------
(* Tables *)

NamedCols == {"Order Date", "Order Status", "Payment Status", "Tipe Produk",
              "Order Source", "Sub Total", "Create by", "Order ID",
              "Product Name", "Qty"}

date_cols == {"Order Date", "Detail Order Date", "Start Date", "End Date",
              "Payment Status Date", "Payment Received Date", "Invoice Date"}

numeric_cols == {"Qty", "Unit Qty", "Unit Price", "Sub Total", "Total Payment",
                 "Total transaction", "Trx (after disc)", "Discount", "Balance"}

Table(cols, rows) == [cols |-> cols, rows |-> rows]

NoTable == Table({}, <<>>)

NoErr == [type |-> "none", line |-> 0]

Raise(type, line) == [type |-> type, line |-> line]

RECURSIVE SelectRows(_, _, _)
(* The rows of a row sequence whose index is in keep, in their order:
   boolean-mask indexing, df[mask]. *)
SelectRows(rows, keep, i) ==
    IF i > Len(rows) THEN <<>>
    ELSE (IF i \in keep THEN <<rows[i]>> ELSE <<>>) \o SelectRows(rows, keep, i + 1)

-----------------------------------------------------------------------------
(* load_data, lines 17-43 *)

(* pd.read_csv at one field: an empty field is NaN, a plain number is a
   number, any other field stays the text it is (line 19). *)
read_csv_cell(raw) ==
    CASE raw.k = "empty" -> NaN
      [] raw.k = "num" -> Float(raw.n)
      [] OTHER -> raw

(* pd.to_datetime(format='%d/%m/%Y', errors='coerce') at one cell: only a
   dd/mm/yyyy text is a date, everything else is NaT (line 27).  With
   errors='coerce' the call does not raise, so the except branch of line 29
   is never taken. *)
to_datetime_cell(c) == IF c.k = "dmy" THEN Date(c.n) ELSE NaN

(* .replace('[\$,]', '', regex=True).astype(float) at one cell (line 36):
   "bad" stands for the ValueError astype raises on a text that is still no
   number after the punctuation is stripped. *)
astype_float_cell(c) ==
    CASE c.k \in {"NaN", "float"} -> c
      [] c.k \in {"num", "cur"} -> Float(c.n)
      [] OTHER -> Cell("bad", 0, "")

(* Lines 19-36 at one row. *)
CleanRow(cols, raw) ==
    [c \in cols |->
        LET v == read_csv_cell(raw[c])
        IN  CASE c \in date_cols -> to_datetime_cell(v)
              [] c \in numeric_cols -> astype_float_cell(v)
              [] OTHER -> v]

(* Lines 39-41 at one row. *)
DeriveRow(cols, row) ==
    IF "Order Date" \in cols
    THEN [c \in cols \cup {"Order Month", "Order Year"} |->
            CASE c = "Order Month" -> to_period(row["Order Date"])
              [] c = "Order Year" -> dt_year(row["Order Date"])
              [] OTHER -> row[c]]
    ELSE row

(* The columns of the returned frame. *)
LoadedCols(cols) ==
    IF "Order Date" \in cols THEN cols \cup {"Order Month", "Order Year"} ELSE cols

(* load_data's body on the file f: [err, table]. *)
load_data(f) ==
    IF ~f.exists THEN [err |-> Raise("FileNotFoundError", 19), table |-> NoTable]
    ELSE LET cleaned == [i \in 1..Len(f.rows) |-> CleanRow(f.cols, f.rows[i])]
         IN  IF \E i \in 1..Len(cleaned) : \E c \in f.cols : cleaned[i][c].k = "bad"
             THEN [err |-> Raise("ValueError", 36), table |-> NoTable]
             ELSE [err |-> NoErr,
                   table |-> Table(LoadedCols(f.cols),
                                   [i \in 1..Len(cleaned) |-> DeriveRow(f.cols, cleaned[i])])]

-----------------------------------------------------------------------------
(* st.cache_data, line 16 *)

NotCached == [present |-> FALSE, table |-> NoTable]

(* load_data without @st.cache_data: the body runs at every call. *)
unmemoized_load_data(c, f) ==
    LET r == load_data(f)
    IN  [err |-> r.err, table |-> r.table,
         cache |-> IF r.err = NoErr THEN [present |-> TRUE, table |-> r.table] ELSE c]

(* A call of the memoized load_data: a hit returns the stored table without
   running the body; a miss runs the body and stores what it returns, and
   stores nothing when it raises.  [err, table, cache]. *)
memo_load_data(c, f) ==
    IF c.present THEN [err |-> NoErr, table |-> c.table, cache |-> c]
    ELSE LET r == load_data(f)
         IN  [err |-> r.err, table |-> r.table,
              cache |-> IF r.err = NoErr
                        THEN [present |-> TRUE, table |-> r.table] ELSE c]

-----------------------------------------------------------------------------
(* main's locals before the script assigns them *)

CatCols == {"Order Status", "Payment Status", "Tipe Produk", "Order Source"}

Unset == Cell("unset", 0, "")

NoSelection == [c \in CatCols |-> Unset]

NoKpi == [total_orders |-> 0, total_revenue |-> 0, unique_customers |-> 0]

-----------------------------------------------------------------------------
(* Date range filter, lines 54-68 *)

Max(S) == CHOOSE x \in S : \A y \in S : y <= x

Min(S) == CHOOSE x \in S : \A y \in S : x <= y

(* The non-null values of a datetime column: Series.min and Series.max skip
   NaT (lines 54-55). *)
DateValues(rows, col) ==
    {rows[i][col].n : i \in {j \in 1..Len(rows) : rows[j][col].k = "date"}}

(* What st.sidebar.date_input can return for the bounds lo..hi: a pair
   start <= end, or a shorter tuple while the user has picked fewer than two
   dates (lines 56-61). *)
DateInput(lo, hi) ==
    {t \in (lo..hi) \X (lo..hi) : t[1] <= t[2]} \cup {<<a>> : a \in lo..hi} \cup {<<>>}

(* Line 68 with the upper bound written '<'. *)
DateMaskExclusiveEnd(rows, start_date, end_date) ==
    {i \in 1..Len(rows) :
        /\ rows[i]["Order Date"].k = "date"
        /\ rows[i]["Order Date"].n >= start_date
        /\ rows[i]["Order Date"].n < end_date}

(* The mask of line 68: (df['Order Date'] >= start_date) & (df['Order Date']
   <= end_date), as the set of row indexes it is True at.  A comparison with
   NaT is False. *)
DateMask(rows, start_date, end_date) ==
    {i \in 1..Len(rows) :
        /\ rows[i]["Order Date"].k = "date"
        /\ rows[i]["Order Date"].n >= start_date
        /\ rows[i]["Order Date"].n <= end_date}

-----------------------------------------------------------------------------
(* Dropdown filters, lines 70-92 *)

(* ['All'] + list(filtered_df[col].unique()): unique keeps NaN. *)
Options(rows, col) == {All} \cup {rows[i][col] : i \in 1..Len(rows)}

(* filtered_df[col] == selected, as the set of row indexes it is True at:
   a NaN cell equals nothing, NaN included. *)
EqMask(rows, col, sel) ==
    {i \in 1..Len(rows) : ~IsNull(rows[i][col]) /\ ~IsNull(sel) /\ rows[i][col] = sel}

(* One dropdown: the new binding of filtered_df. *)
ApplySelect(t, col, sel) ==
    IF sel # All THEN Table(t.cols, SelectRows(t.rows, EqMask(t.rows, col, sel), 1))
    ELSE t

-----------------------------------------------------------------------------
(* Aggregates *)

RECURSIVE ColumnSum(_, _)
(* Series.sum(): NaN cells are skipped, the empty sum is 0 (line 106). *)
ColumnSum(rows, col) ==
    IF rows = <<>> THEN 0
    ELSE (IF IsNull(Head(rows)[col]) THEN 0 ELSE Head(rows)[col].n)
         + ColumnSum(Tail(rows), col)

(* Series.nunique(): the distinct non-null values (line 114). *)
nunique(rows, col) ==
    Cardinality({rows[i][col] : i \in 1..Len(rows)} \ {NaN})

(* groupby(key)[val].sum().reset_index(): one row per non-null key, the key
   and the sum of its rows' val (lines 186, 201). *)
GroupSum(rows, key, val) ==
    {[name |-> k,
      metric |-> ColumnSum(SelectRows(rows, {i \in 1..Len(rows) : rows[i][key] = k}, 1), val)] :
        k \in {rows[i][key] : i \in 1..Len(rows)} \ {NaN}}

(* The row sort_values(ascending=False) puts first: a greatest metric; among
   equal metrics the order is the sort algorithm's, here either end of the
   key order (first: the least key). *)
First(groups, least) ==
    CHOOSE g \in groups : \A h \in groups :
        \/ h.metric < g.metric
        \/ /\ h.metric = g.metric
           /\ (IF least THEN g.name.n <= h.name.n ELSE g.name.n >= h.name.n)

RECURSIVE sort_values_asc(_, _)
(* sort_values without ascending=False. *)
sort_values_asc(groups, least) ==
    IF groups = {} THEN <<>>
    ELSE LET g == First(groups, least)
         IN  sort_values_asc(groups \ {g}, least) \o <<g>>

RECURSIVE sort_values_desc(_, _)
sort_values_desc(groups, least) ==
    IF groups = {} THEN <<>>
    ELSE LET g == First(groups, least)
         IN  <<g>> \o sort_values_desc(groups \ {g}, least)

(* DataFrame.head(n). *)
head(s, n) == SubSeq(s, 1, IF Len(s) < n THEN Len(s) ELSE n)

(* Lines 186-187 and 201-202. *)
TopBy(rows, val, least) == head(sort_values_desc(GroupSum(rows, "Product Name", val), least), TopN)

-----------------------------------------------------------------------------
(* Export, line 219 *)

(* to_csv at one cell: a midnight Timestamp is written yyyy-mm-dd, a Period
   yyyy-mm, a float as a number, NaN and NaT as the empty field, a text as
   it is. *)
to_csv_cell(c) ==
    CASE c.k = "NaN" -> Empty
      [] c.k = "date" -> Iso(c.n)
      [] c.k = "period" -> Cell("ym", c.n, "")
      [] c.k = "float" -> Num(c.n)
      [] OTHER -> c

(* filtered_df.to_csv(index=False): the header and one line per row. *)
to_csv(t) ==
    [exists |-> TRUE, cols |-> t.cols,
     rows |-> [i \in 1..Len(t.rows) |-> [c \in t.cols |-> to_csv_cell(t.rows[i][c])]]]

-----------------------------------------------------------------------------
(* The script, one action per block of main *)

(* Line 48: df = load_data('Testdetailorders.csv'). *)
Load ==
    /\ pc = "start"
    /\ LET r == memo_load_data(cache, file)
       IN  /\ cache' = r.cache
           /\ df' = r.table
           /\ err' = r.err
           /\ pc' = IF r.err = NoErr THEN "date" ELSE "crashed"
    /\ UNCHANGED <<file, date_range, selected, filtered_df, stages, kpi,
                   top_products, top_qty, csv, rendered>>

(* Lines 54-68: the date range widget and the date filter.  With no
   non-null Order Date, min() is NaT and no date range can be built from
   it: an exception is raised on the way from line 54 to line 64. *)
DateFilter ==
    /\ pc = "date"
    /\ IF "Order Date" \notin df.cols
       THEN /\ err' = Raise("KeyError", 54)
            /\ pc' = "crashed"
            /\ UNCHANGED <<date_range, filtered_df, stages, rendered>>
       ELSE IF DateValues(df.rows, "Order Date") = {}
       THEN /\ \E ln \in {54, 56, 64} : err' = Raise("ValueError", ln)
            /\ pc' = "crashed"
            /\ UNCHANGED <<date_range, filtered_df, stages, rendered>>
       ELSE LET min_date == Min(DateValues(df.rows, "Order Date"))
                max_date == Max(DateValues(df.rows, "Order Date"))
            IN  \E picked \in DateInput(min_date, max_date) :
                  /\ date_range' = picked
                  /\ rendered' = rendered \cup {"Date Range"}
                  /\ IF Len(picked) < 2
                     THEN /\ err' = Raise("IndexError", 64 + Len(picked))
                          /\ pc' = "crashed"
                          /\ UNCHANGED <<filtered_df, stages>>
                     ELSE /\ filtered_df' =
                                Table(df.cols,
                                      SelectRows(df.rows,
                                                 DateMask(df.rows, picked[1], picked[2]), 1))
                          /\ stages' = <<filtered_df'.rows>>
                          /\ err' = err
                          /\ pc' = "Order Status"
    /\ UNCHANGED <<file, cache, df, selected, kpi, top_products, top_qty, csv>>

(* The position after the dropdown of a column. *)
AfterSelect(col) ==
    CASE col = "Order Status" -> "Payment Status"
      [] col = "Payment Status" -> "Tipe Produk"
      [] col = "Tipe Produk" -> "Order Source"
      [] col = "Order Source" -> "kpi"

(* The line that reads filtered_df[col] for the options of a dropdown. *)
SelectLine(col) ==
    CASE col = "Order Status" -> 71
      [] col = "Payment Status" -> 77
      [] col = "Tipe Produk" -> 83
      [] col = "Order Source" -> 89

(* Lines 70-74, 76-80, 82-86, 88-92: one dropdown and its filter. *)
SelectFilter(col) ==
    /\ pc = col
    /\ IF col \notin filtered_df.cols
       THEN /\ err' = Raise("KeyError", SelectLine(col))
            /\ pc' = "crashed"
            /\ UNCHANGED <<selected, filtered_df, stages, rendered>>
       ELSE \E sel \in Options(filtered_df.rows, col) :
              /\ selected' = [selected EXCEPT ![col] = sel]
              /\ rendered' = rendered \cup {col}
              /\ filtered_df' = ApplySelect(filtered_df, col, sel)
              /\ stages' = Append(stages, filtered_df'.rows)
              /\ err' = err
              /\ pc' = AfterSelect(col)
    /\ UNCHANGED <<file, cache, df, date_range, kpi, top_products, top_qty, csv>>

(* The KPI cards computed from df. *)
KpiFrameUnfiltered == df

(* The frame the KPI cards are computed from (lines 102, 106, 114). *)
KpiFrame == filtered_df

(* Lines 95-115: the KPI cards.  The elements drawn before a failing line
   stay on the page. *)
Kpi ==
    /\ pc = "kpi"
    /\ LET rows == KpiFrame.rows
           orders == [NoKpi EXCEPT !.total_orders = Len(rows)]
           revenue == [orders EXCEPT !.total_revenue = ColumnSum(rows, "Sub Total")]
       IN  IF "Sub Total" \notin KpiFrame.cols
           THEN /\ kpi' = orders
                /\ rendered' = rendered \cup {"Total Orders"}
                /\ err' = Raise("KeyError", 106)
                /\ pc' = "crashed"
           ELSE IF "Create by" \notin KpiFrame.cols
           THEN /\ kpi' = revenue
                /\ rendered' = rendered \cup {"Total Orders", "Total Revenue",
                                              "Avg Order Value"}
                /\ err' = Raise("KeyError", 114)
                /\ pc' = "crashed"
           ELSE /\ kpi' = [revenue EXCEPT !.unique_customers = nunique(rows, "Create by")]
                /\ rendered' = rendered \cup {"Total Orders", "Total Revenue",
                                              "Avg Order Value", "Unique Customers"}
                /\ err' = err
                /\ pc' = "tab1"
    /\ UNCHANGED <<file, cache, df, date_range, selected, filtered_df, stages,
                   top_products, top_qty, csv>>

(* Lines 120-145: the daily trend and the status counts. *)
Overview ==
    /\ pc = "tab1"
    /\ IF "Order ID" \notin filtered_df.cols
       THEN /\ err' = Raise("KeyError", 127)
            /\ pc' = "crashed"
            /\ rendered' = rendered
       ELSE /\ rendered' = rendered \cup {"Daily Order Trend", "Top Order Statuses"}
            /\ err' = err
            /\ pc' = "tab2"
    /\ UNCHANGED <<file, cache, df, date_range, selected, filtered_df, stages, kpi,
                   top_products, top_qty, csv>>

(* Lines 147-177: revenue by product type and by order source; their
   columns were read by the dropdowns before. *)
RevenueAnalysis ==
    /\ pc = "tab2"
    /\ rendered' = rendered \cup {"Revenue by Product Type", "Revenue by Order Source"}
    /\ pc' = "tab3"
    /\ UNCHANGED <<file, cache, err, df, date_range, selected, filtered_df, stages,
                   kpi, top_products, top_qty, csv>>

(* Lines 179-212: the two product rankings. *)
ProductPerformance ==
    /\ pc = "tab3"
    /\ IF "Product Name" \notin filtered_df.cols
       THEN /\ err' = Raise("KeyError", 186)
            /\ pc' = "crashed"
            /\ UNCHANGED <<top_products, top_qty, rendered>>
       ELSE \E least \in BOOLEAN :
              /\ top_products' = TopBy(filtered_df.rows, "Sub Total", least)
              /\ IF "Qty" \notin filtered_df.cols
                 THEN /\ err' = Raise("KeyError", 201)
                      /\ pc' = "crashed"
                      /\ top_qty' = top_qty
                      /\ rendered' = rendered \cup {"Top 10 Products by Revenue"}
                 ELSE /\ top_qty' = TopBy(filtered_df.rows, "Qty", least)
                      /\ rendered' = rendered \cup {"Top 10 Products by Revenue",
                                                    "Top 10 Products by Quantity Sold"}
                      /\ err' = err
                      /\ pc' = "tab4"
    /\ UNCHANGED <<file, cache, df, date_range, selected, filtered_df, stages, kpi, csv>>

(* Lines 214-225: the raw table and the download button. *)
RawData ==
    /\ pc = "tab4"
    /\ csv' = to_csv(filtered_df)
    /\ rendered' = rendered \cup {"Raw Data", "Download Filtered Data as CSV"}
    /\ pc' = "done"
    /\ UNCHANGED <<file, cache, err, df, date_range, selected, filtered_df, stages,
                   kpi, top_products, top_qty>>

(* What a finished run leaves for the next one: every local of main is
   gone, the page is drawn anew. *)
FreshLocals ==
    [df |-> NoTable, date_range |-> <<>>, selected |-> NoSelection,
     filtered_df |-> NoTable, stages |-> <<>>, kpi |-> NoKpi,
     top_products |-> <<>>, top_qty |-> <<>>, csv |-> [exists |-> FALSE, cols |-> {}, rows |-> <<>>],
     rendered |-> {}, err |-> NoErr]

(* A user interaction after a run has ended: Streamlit runs the script
   again from line 1 (lines 227-228). *)
Rerun ==
    /\ pc \in {"done", "crashed"}
    /\ pc' = "start"
    /\ df' = FreshLocals.df
    /\ date_range' = FreshLocals.date_range
    /\ selected' = FreshLocals.selected
    /\ filtered_df' = FreshLocals.filtered_df
    /\ stages' = FreshLocals.stages
    /\ kpi' = FreshLocals.kpi
    /\ top_products' = FreshLocals.top_products
    /\ top_qty' = FreshLocals.top_qty
    /\ csv' = FreshLocals.csv
    /\ rendered' = FreshLocals.rendered
    /\ err' = FreshLocals.err
    /\ UNCHANGED <<file, cache>>

(* The file is rewritten on disk while the dashboard is up.  Only line 19
   reads it, so a change takes effect as if made just before the next run. *)
ChangeFile(files) ==
    /\ pc = "start"
    /\ \E f \in files \ {file} : file' = f
    /\ UNCHANGED <<cache, pc, err, df, date_range, selected, filtered_df, stages,
                   kpi, top_products, top_qty, csv, rendered>>

Next ==
    \/ Load
    \/ DateFilter
    \/ \E col \in CatCols : SelectFilter(col)
    \/ Kpi
    \/ Overview
    \/ RevenueAnalysis
    \/ ProductPerformance
    \/ RawData
    \/ Rerun

-----------------------------------------------------------------------------
(* Input files *)

File(cols, rows) == [exists |-> TRUE, cols |-> cols, rows |-> rows]

NoFile == [exists |-> FALSE, cols |-> {}, rows |-> <<>>]

(* One order line with every named column filled in. *)
BaseRow ==
    [c \in NamedCols |->
        CASE c = "Order Date" -> Dmy(1)
          [] c = "Order Status" -> Label("Completed", 0)
          [] c = "Payment Status" -> Label("Paid", 0)
          [] c = "Tipe Produk" -> Label("Digital", 0)
          [] c = "Order Source" -> Label("Web", 0)
          [] c = "Sub Total" -> Num(1)
          [] c = "Create by" -> Label("user", 1)
          [] c = "Order ID" -> Label("ORD", 1)
          [] c = "Product Name" -> Label("P", 1)
          [] c = "Qty" -> Num(1)]

(* The tables of at most n rows drawn from a set of rows. *)
Tables(rowset, n) == UNION {[1..k -> rowset] : k \in 0..n}

Restrict(rows, cols) == [i \in 1..Len(rows) |-> [c \in cols |-> rows[i][c]]]

(* Files of the whole program: null, unparsable and dated order dates, null
   and labelled statuses, null, punctuated and unparsable amounts; every
   named column present or one of them missing; or no file at all. *)
RowsMain ==
    {[BaseRow EXCEPT !["Order Date"] = od, !["Order Status"] = st, !["Sub Total"] = sub] :
        od \in {Empty, Dmy(1), Dmy(MaxDay)},
        st \in {Empty, Label("Completed", 0)},
        sub \in {Empty, Cur(MaxAmount), Junk}}

FilesMain ==
    {NoFile} \cup
    {File(cols, Restrict(rows, cols)) :
        cols \in {NamedCols} \cup {NamedCols \ {c} : c \in NamedCols},
        rows \in Tables(RowsMain, MaxRowsMain)}

(* Files for the date filter: every kind of Order Date cell. *)
RowsDate ==
    {[BaseRow EXCEPT !["Order Date"] = od] :
        od \in {Empty, Junk} \cup {Dmy(d) : d \in 1..MaxDay}}

FilesDate == {File(NamedCols, rows) : rows \in Tables(RowsDate, MaxRowsDate)}

(* Files for the KPI cards: null and punctuated amounts, null and labelled
   statuses. *)
RowsKpi ==
    {[BaseRow EXCEPT !["Sub Total"] = sub, !["Order Status"] = st] :
        sub \in {Empty} \cup {Cur(v) : v \in 1..MaxAmount},
        st \in {Empty, Label("Completed", 0)}}

FilesKpi == {File(NamedCols, rows) : rows \in Tables(RowsKpi, MaxRowsKpi)}

(* Files for the rankings: one order line per product, more products than
   a ranking holds; each line is either a dear digital product sold once or
   a cheap physical one sold twice, and gives no status, payment status or
   source. *)
RankRow(i, dear) ==
    [BaseRow EXCEPT !["Product Name"] = Label("P", i),
                    !["Sub Total"] = IF dear THEN Num(2) ELSE Num(1),
                    !["Qty"] = IF dear THEN Num(1) ELSE Num(2),
                    !["Tipe Produk"] = IF dear THEN Label("Digital", 0)
                                       ELSE Label("Physical", 0),
                    !["Order Status"] = Empty,
                    !["Payment Status"] = Empty,
                    !["Order Source"] = Empty]

FilesRank ==
    {File(NamedCols, [i \in 1..MaxProducts |-> RankRow(i, i \in dear)]) :
        dear \in SUBSET (1..MaxProducts)}

(* Files for the reruns. *)
RowsRerun ==
    {[BaseRow EXCEPT !["Order Status"] = st] :
        st \in {Empty, Label("Completed", 0), Label("Cancelled", 0)}}

FilesRerun == {File(NamedCols, rows) : rows \in Tables(RowsRerun, MaxRowsRerun)}

-----------------------------------------------------------------------------
(* Specifications *)

(* The state when the server starts: the file as it is, nothing memoized,
   the first run about to begin. *)
InitWith(files) ==
    /\ file \in files
    /\ cache = NotCached
    /\ pc = "start"
    /\ err = FreshLocals.err
    /\ df = FreshLocals.df
    /\ date_range = FreshLocals.date_range
    /\ selected = FreshLocals.selected
    /\ filtered_df = FreshLocals.filtered_df
    /\ stages = FreshLocals.stages
    /\ kpi = FreshLocals.kpi
    /\ top_products = FreshLocals.top_products
    /\ top_qty = FreshLocals.top_qty
    /\ csv = FreshLocals.csv
    /\ rendered = FreshLocals.rendered

Init == InitWith(FilesMain)

Spec == Init /\ [][Next]_vars

InitDate == InitWith(FilesDate)

SpecDate == InitDate /\ [][Next]_vars

InitKpi == InitWith(FilesKpi)

SpecKpi == InitKpi /\ [][Next]_vars

InitRank == InitWith(FilesRank)

SpecRank == InitRank /\ [][Next]_vars

InitRerun == InitWith(FilesRerun)

NextRerun == Next \/ ChangeFile(FilesRerun)

SpecRerun == InitRerun /\ [][NextRerun]_vars

-----------------------------------------------------------------------------
(* Properties *)

(* The positions at which all five filters have run. *)
Filtered == {"kpi", "tab1", "tab2", "tab3", "tab4", "done"}

(* The positions at which the KPI cards are on the page. *)
KpiShown == {"tab1", "tab2", "tab3", "tab4", "done"}

(* The positions at which both rankings are on the page. *)
Ranked == {"tab4", "done"}

(* The Order Date of a row lies in the closed range start..end. *)
InRange(row, start, end) ==
    /\ ~IsNull(row["Order Date"])
    /\ start <= row["Order Date"].n
    /\ row["Order Date"].n <= end

(* C1: once the date filter has run, its output holds only rows of the
   loaded table whose Order Date is not null and lies in start..end, both
   bounds included, and it holds every such row of the loaded table, once
   per occurrence and in the table's order. *)
C1_DateFilterInclusive ==
    Len(stages) >= 1 =>
        LET out == stages[1]
            start == date_range[1]
            end == date_range[2]
            hits == {i \in 1..Len(df.rows) : InRange(df.rows[i], start, end)}
        IN  /\ \A j \in 1..Len(out) : InRange(out[j], start, end)
            /\ \A i \in hits : \E j \in 1..Len(out) : out[j] = df.rows[i]
            /\ Len(out) = Cardinality(hits)
            /\ \A j \in 1..Len(out) : \E i \in hits : out[j] = df.rows[i]

(* C1 witness: a range start < end whose output holds a row dated start and
   a row dated end, from a table that also holds a row with a null date. *)
C1_Witness ==
    /\ Len(stages) >= 1
    /\ date_range[1] < date_range[2]
    /\ \E j \in 1..Len(stages[1]) : stages[1][j]["Order Date"].n = date_range[1]
    /\ \E j \in 1..Len(stages[1]) : stages[1][j]["Order Date"].n = date_range[2]
    /\ \E i \in 1..Len(df.rows) : IsNull(df.rows[i]["Order Date"])

RECURSIVE SumAt(_, _, _)
(* The sum of a column over a set of row indexes, a null cell counting 0. *)
SumAt(rows, idx, col) ==
    IF idx = {} THEN 0
    ELSE LET i == CHOOSE x \in idx : TRUE
         IN  (IF IsNull(rows[i][col]) THEN 0 ELSE rows[i][col].n)
             + SumAt(rows, idx \ {i}, col)

(* C2: whenever the KPI cards are shown, Total Orders is the number of rows
   of the filtered table and Total Revenue is the sum of Sub Total over its
   rows, 0 for the empty table. *)
C2_KpiTotals ==
    pc \in KpiShown =>
        /\ kpi.total_orders = Len(filtered_df.rows)
        /\ kpi.total_revenue =
              SumAt(filtered_df.rows, 1..Len(filtered_df.rows), "Sub Total")
        /\ filtered_df.rows = <<>> => kpi.total_revenue = 0

(* C2 witness: a status selection has narrowed the table to some but not
   all of its rows, one of them without a Sub Total, and the revenue shown
   is positive. *)
C2_Witness ==
    /\ pc = "done"
    /\ selected["Order Status"] # All
    /\ Len(filtered_df.rows) > 1
    /\ Len(filtered_df.rows) < Len(df.rows)
    /\ \E i \in 1..Len(filtered_df.rows) : IsNull(filtered_df.rows[i]["Sub Total"])
    /\ kpi.total_revenue > 0

(* The products of a table: its non-null Product Name cells. *)
Products(rows) == {rows[i]["Product Name"] : i \in 1..Len(rows)} \ {NaN}

(* The summed column of one product. *)
Metric(rows, p, col) ==
    SumAt(rows, {i \in 1..Len(rows) : rows[i]["Product Name"] = p}, col)

(* A ranking of the products of a table by a summed column: at most TopN
   rows, one per product and with that product's sum, in non-increasing
   order, no product left out exceeding one that is in. *)
IsRanking(rank, rows, col) ==
    /\ Len(rank) <= TopN
    /\ \A i \in 1..Len(rank) :
          /\ rank[i].name \in Products(rows)
          /\ rank[i].metric = Metric(rows, rank[i].name, col)
    /\ \A i, j \in 1..Len(rank) :
          /\ i < j => rank[i].metric >= rank[j].metric
          /\ i # j => rank[i].name # rank[j].name
    /\ \A p \in Products(rows) \ {rank[i].name : i \in 1..Len(rank)} :
          \A i \in 1..Len(rank) : Metric(rows, p, col) <= rank[i].metric

(* C3: once tab3 is drawn, the ranking by Sub Total and the ranking by Qty
   each hold at most 10 rows in non-increasing order of the metric, and no
   product left out has a greater metric than a product that is in. *)
C3_TopRankings ==
    pc \in Ranked =>
        /\ IsRanking(top_products, filtered_df.rows, "Sub Total")
        /\ IsRanking(top_qty, filtered_df.rows, "Qty")

(* C3 witness: more than 10 products, rankings of 10 rows with different
   metrics at their two ends, and a product left out. *)
C3_Witness ==
    /\ pc = "done"
    /\ Cardinality(Products(filtered_df.rows)) > TopN
    /\ Len(top_products) = TopN
    /\ Len(top_qty) = TopN
    /\ top_products[1].metric > top_products[TopN].metric
    /\ top_qty[1].metric > top_qty[TopN].metric

(* The filtered table of a run, from the loaded table and the widget
   values alone. *)
FilteredFrom(t, dr, sel) ==
    LET dated == Table(t.cols, SelectRows(t.rows, DateMask(t.rows, dr[1], dr[2]), 1))
        a == ApplySelect(dated, "Order Status", sel["Order Status"])
        b == ApplySelect(a, "Payment Status", sel["Payment Status"])
        c == ApplySelect(b, "Tipe Produk", sel["Tipe Produk"])
    IN  ApplySelect(c, "Order Source", sel["Order Source"])

(* The metrics of a ranking, in its order. *)
Metrics(rank) == [i \in 1..Len(rank) |-> rank[i].metric]

(* What C9 says of one state: a run starts with no local of the run before;
   the table it works on is the memoized one; the filtered table, the KPIs
   and the ranked metrics it ends with are those of the memoized table
   under this run's widget values. *)
C9_State ==
    /\ pc = "start" =>
          /\ <<df, filtered_df, kpi, top_products, top_qty>>
                = <<NoTable, NoTable, NoKpi, <<>>, <<>>>>
          /\ <<date_range, selected, stages, rendered>>
                = <<(<<>>), NoSelection, <<>>, {}>>
    /\ pc \notin {"start", "crashed"} => cache.present /\ df = cache.table
    /\ pc = "done" =>
          LET f == FilteredFrom(cache.table, date_range, selected)
          IN  /\ filtered_df = f
              /\ kpi.total_orders = Len(f.rows)
              /\ kpi.total_revenue = ColumnSum(f.rows, "Sub Total")
              /\ \E least \in BOOLEAN :
                    /\ Metrics(top_products) = Metrics(TopBy(f.rows, "Sub Total", least))
                    /\ Metrics(top_qty) = Metrics(TopBy(f.rows, "Qty", least))

(* C9: across reruns, what a run shows depends only on the memoized table
   and on that run's widget values; nothing else is carried from run to
   run, and the memoized table, once stored, never changes. *)
C9_RunsIndependent ==
    /\ []C9_State
    /\ [][cache.present => cache' = cache]_vars

(* C9 witness: a run has ended on a non-empty filtered table while the file
   on disk no longer parses to the memoized table: the file was rewritten
   after an earlier run had loaded it, and this run was served from the
   memo. *)
C9_Witness ==
    /\ pc = "done"
    /\ cache.present
    /\ load_data(file).table # cache.table
    /\ filtered_df.rows # <<>>

(* C4: the exported CSV, parsed again by load_data, is the filtered table:
   no error, the same columns, the same rows in the same order. *)
C4_ExportRoundTrips ==
    pc = "done" => load_data(csv) = [err |-> NoErr, table |-> filtered_df]

(* The elements that show results: KPI cards, charts and tables. *)
Results ==
    {"Total Orders", "Total Revenue", "Avg Order Value", "Unique Customers",
     "Daily Order Trend", "Top Order Statuses", "Revenue by Product Type",
     "Revenue by Order Source", "Top 10 Products by Revenue",
     "Top 10 Products by Quantity Sold", "Raw Data"}

(* C5: no run ends with an exception that left main uncaught, and a run in
   which an exception was raised shows no KPI, chart or table. *)
C5_ExceptionsCaught ==
    /\ pc # "crashed"
    /\ err # NoErr => rendered \cap Results = {}

(* C6: no run reads a column the table does not have (pandas answers such
   a read with KeyError). *)
C6_ColumnsGuarded == err.type # "KeyError"

(* C7: load_data does not raise on a file that exists, whatever its cells
   hold (load_data is lines 17-43). *)
C7_LoadToleratesCells ==
    file.exists => ~(pc = "crashed" /\ err.line \in 17..43)

(* A row agrees with a dropdown: the dropdown shows 'All' or the cell is
   the selected value. *)
Agrees(row, col, sel) == sel = All \/ row[col] = sel

(* C8: stage by stage every output is made of rows of the stage before, a
   selection of 'All' changes nothing, and the final table is made of
   exactly the rows of the loaded table that lie in the date range and
   agree with the four dropdowns. *)
C8_SequentialFilters ==
    pc \in Filtered =>
        LET hits == {i \in 1..Len(df.rows) :
                        /\ InRange(df.rows[i], date_range[1], date_range[2])
                        /\ \A col \in CatCols : Agrees(df.rows[i], col, selected[col])}
        IN  /\ Len(stages) = 5
            /\ \A k \in 2..5 : \A j \in 1..Len(stages[k]) :
                  \E i \in 1..Len(stages[k - 1]) : stages[k][j] = stages[k - 1][i]
            /\ selected["Order Status"] = All => stages[2] = stages[1]
            /\ selected["Payment Status"] = All => stages[3] = stages[2]
            /\ selected["Tipe Produk"] = All => stages[4] = stages[3]
            /\ selected["Order Source"] = All => stages[5] = stages[4]
            /\ filtered_df.rows = SelectRows(df.rows, hits, 1)

(* C10: a dropdown whose input is not empty never produces an empty
   output, whichever offered option is selected. *)
C10_OfferedOptionKeepsRows ==
    \A k \in 2..Len(stages) : stages[k - 1] # <<>> => stages[k] # <<>>

====
